---- MODULE Spec2Model ----
(***************************************************************************)
(* File-patch engine of src/infra/tools/file-tool.ts (FileToolImpl).      *)
(* Strings are sequences of one-character strings, so that split, join,   *)
(* includes and === are computed on characters as the code computes them. *)
(***************************************************************************)
EXTENDS Integers, Sequences, FiniteSets, TLC

NL == "\n"

\* ---------------------------------------------------------------- bounds
MaxLines == 3
MaxOcc == 2
MaxFileLines == 3
MaxOps == 2

\* --------------------------------------------------------------- strings
Min(a, b) == IF a < b THEN a ELSE b
Max(a, b) == IF a > b THEN a ELSE b

SeqsUpTo(S, n) == UNION {[1..k -> S] : k \in 0..n}

\* String.prototype.split("\n")
RECURSIVE Split(_)
Split(s) ==
  IF \A i \in 1..Len(s) : s[i] # NL
  THEN <<s>>
  ELSE LET i == CHOOSE k \in 1..Len(s) :
                   s[k] = NL /\ \A j \in 1..(k - 1) : s[j] # NL
       IN <<SubSeq(s, 1, i - 1)>> \o Split(SubSeq(s, i + 1, Len(s)))

\* mutant: every line is followed by a line break
RECURSIVE Join_TrailingNewline(_)
Join_TrailingNewline(L) ==
  IF Len(L) = 0 THEN <<>>
  ELSE L[1] \o <<NL>> \o Join_TrailingNewline(Tail(L))

\* Array.prototype.join("\n")
RECURSIVE Join(_)
Join(L) ==
  IF Len(L) = 0 THEN <<>>
  ELSE IF Len(L) = 1 THEN L[1]
  ELSE L[1] \o <<NL>> \o Join(Tail(L))

\* String.prototype.includes
Includes(line, search) ==
  \E i \in 0..(Len(line) - Len(search)) :
     SubSeq(line, i + 1, i + Len(search)) = search

\* Array.prototype.splice(start, deleteCount, ...items), with the clamping
\* of start and deleteCount that ECMAScript prescribes
Splice(L, start, deleteCount, items) ==
  LET len == Len(L)
      rs == IF start < 0 THEN Max(len + start, 0) ELSE Min(start, len)
      dc == Min(Max(deleteCount, 0), len - rs)
  IN SubSeq(L, 1, rs) \o items \o SubSeq(L, rs + dc + 1, len)

\* Array.prototype.slice(start, end) for 0 <= start
Slice(L, start, end) == SubSeq(L, Min(start, Len(L)) + 1, Min(end, Len(L)))

\* ---------------------------------------------------------------- errors
\* new Error(`...`): the operation, the message template and the values
\* interpolated into it
Err(type, kind, args, text) ==
  [isError |-> TRUE, type |-> type, kind |-> kind, args |-> args, text |-> text]

PreviewLen == 50

Preview(s) ==
  IF Len(s) > PreviewLen THEN SubSeq(s, 1, PreviewLen) \o <<".", ".", ".">> ELSE s

Ok(L) == [ok |-> TRUE, lines |-> L, error |-> <<>>]
Throw(L, e) == [ok |-> FALSE, lines |-> L, error |-> <<e>>]

\* mutant: an omitted occurrence counts as 0
Occurrence_DefaultZero(op) == IF op.occurrence = <<>> THEN 0 ELSE op.occurrence[1]

\* operation.occurrence ?? 1   (occurrence is <<>> when omitted, <<n>> when given)
Occurrence(op) == IF op.occurrence = <<>> THEN 1 ELSE op.occurrence[1]

\* ------------------------------------------------- line-number operations
\* mutant: the position after the last line is refused
InsertBlock_NoAppend(L, op) ==
  IF op.lineNumber < 0 \/ op.lineNumber >= Len(L)
  THEN Throw(L, Err("insert_block", "out_of_bounds", <<op.lineNumber, Len(L)>>, <<>>))
  ELSE Ok(Splice(L, op.lineNumber, 0, op.lines))

InsertBlock(L, op) ==
  IF op.lineNumber < 0 \/ op.lineNumber > Len(L)
  THEN Throw(L, Err("insert_block", "out_of_bounds", <<op.lineNumber, Len(L)>>, <<>>))
  ELSE Ok(Splice(L, op.lineNumber, 0, op.lines))

\* mutant: startLine > endLine is not checked
DeleteRange_NoOrderCheck(L, op) ==
  IF op.startLine < 1 \/ op.endLine > Len(L)
  THEN Throw(L, Err("delete_range", "invalid_range",
                    <<op.startLine, op.endLine, Len(L)>>, <<>>))
  ELSE LET deleteCount == op.endLine - op.startLine + 1
       IN Ok(Splice(L, op.startLine - 1, deleteCount, <<>>))

\* mutant: endLine is taken as exclusive
DeleteRange_ExclusiveEnd(L, op) ==
  IF op.startLine < 1 \/ op.endLine > Len(L) \/ op.startLine > op.endLine
  THEN Throw(L, Err("delete_range", "invalid_range",
                    <<op.startLine, op.endLine, Len(L)>>, <<>>))
  ELSE LET deleteCount == op.endLine - op.startLine
       IN Ok(Splice(L, op.startLine - 1, deleteCount, <<>>))

DeleteRange(L, op) ==
  IF op.startLine < 1 \/ op.endLine > Len(L) \/ op.startLine > op.endLine
  THEN Throw(L, Err("delete_range", "invalid_range",
                    <<op.startLine, op.endLine, Len(L)>>, <<>>))
  ELSE LET deleteCount == op.endLine - op.startLine + 1
       IN Ok(Splice(L, op.startLine - 1, deleteCount, <<>>))

\* mutant: the span is one line short
ReplaceRange_ShortSpan(L, op) ==
  IF op.startLine < 1 \/ op.endLine > Len(L) \/ op.startLine > op.endLine
  THEN Throw(L, Err("replace_range", "invalid_range",
                    <<op.startLine, op.endLine, Len(L)>>, <<>>))
  ELSE LET deleteCount == op.endLine - op.startLine
       IN Ok(Splice(L, op.startLine - 1, deleteCount, op.lines))

\* mutant: startLine > endLine is not checked
ReplaceRange_NoOrderCheck(L, op) ==
  IF op.startLine < 1 \/ op.endLine > Len(L)
  THEN Throw(L, Err("replace_range", "invalid_range",
                    <<op.startLine, op.endLine, Len(L)>>, <<>>))
  ELSE LET deleteCount == op.endLine - op.startLine + 1
       IN Ok(Splice(L, op.startLine - 1, deleteCount, op.lines))

ReplaceRange(L, op) ==
  IF op.startLine < 1 \/ op.endLine > Len(L) \/ op.startLine > op.endLine
  THEN Throw(L, Err("replace_range", "invalid_range",
                    <<op.startLine, op.endLine, Len(L)>>, <<>>))
  ELSE LET deleteCount == op.endLine - op.startLine + 1
       IN Ok(Splice(L, op.startLine - 1, deleteCount, op.lines))

\* ---------------------------------------------- content-anchored, one line
\* the for loop of findContentLine from index i (0-based) on
RECURSIVE FindContentLineFrom(_, _, _, _, _, _)
FindContentLineFrom(L, searchContent, occurrence, i, count, foundIndex) ==
  IF i >= Len(L)
  THEN [index |-> foundIndex, totalMatches |-> count]
  ELSE IF Includes(L[i + 1], searchContent)
       THEN FindContentLineFrom(L, searchContent, occurrence, i + 1, count + 1,
              IF count + 1 = occurrence /\ foundIndex = -1 THEN i ELSE foundIndex)
       ELSE FindContentLineFrom(L, searchContent, occurrence, i + 1, count, foundIndex)

\* mutant: the scan starts at the second line
FindContentLine_SkipFirst(L, searchContent, occurrence) ==
  FindContentLineFrom(L, searchContent, occurrence, 1, 0, -1)

\* mutant: an occurrence below 1 is taken as 1
FindContentLine_ClampOccurrence(L, searchContent, occurrence) ==
  FindContentLineFrom(L, searchContent, Max(occurrence, 1), 0, 0, -1)

FindContentLine(L, searchContent, occurrence) ==
  FindContentLineFrom(L, searchContent, occurrence, 0, 0, -1)

\* mutant: the new line is put before the target
InsertAfter_AtTarget(L, op) ==
  LET occurrence == Occurrence(op)
      result == FindContentLineFrom(L, op.searchContent, occurrence, 0, 0, -1)
  IN IF result.index = -1
     THEN Throw(L, Err("insert_after", "not_found",
                       <<occurrence, result.totalMatches>>, op.searchContent))
     ELSE Ok(Splice(L, result.index, 0, <<op.content>>))

\* mutant: the content is split into lines before it is put in
InsertAfter_SplitContent(L, op) ==
  LET occurrence == Occurrence(op)
      result == FindContentLineFrom(L, op.searchContent, occurrence, 0, 0, -1)
  IN IF result.index = -1
     THEN Throw(L, Err("insert_after", "not_found",
                       <<occurrence, result.totalMatches>>, op.searchContent))
     ELSE Ok(Splice(L, result.index + 1, 0, Split(op.content)))

InsertAfter(L, op) ==
  LET occurrence == Occurrence(op)
      result == FindContentLine(L, op.searchContent, occurrence)
  IN IF result.index = -1
     THEN Throw(L, Err("insert_after", "not_found",
                       <<occurrence, result.totalMatches>>, op.searchContent))
     ELSE Ok(Splice(L, result.index + 1, 0, <<op.content>>))

InsertBefore(L, op) ==
  LET occurrence == Occurrence(op)
      result == FindContentLine(L, op.searchContent, occurrence)
  IN IF result.index = -1
     THEN Throw(L, Err("insert_before", "not_found",
                       <<occurrence, result.totalMatches>>, op.searchContent))
     ELSE Ok(Splice(L, result.index, 0, <<op.content>>))

\* ------------------------------------------- content-anchored, multi-line
\* mutant: a line matches when it contains the pattern line
ReplaceMatches_Includes(L, oldContentLines, startIndex) ==
  \A i \in 0..(Len(oldContentLines) - 1) :
     ~(startIndex + i >= Len(L))
     /\ Includes(L[startIndex + i + 1], oldContentLines[i + 1])

\* the inner for loop of findAndReplaceContent: a match starts at startIndex
ReplaceMatches(L, oldContentLines, startIndex) ==
  \A i \in 0..(Len(oldContentLines) - 1) :
     ~(startIndex + i >= Len(L)) /\ L[startIndex + i + 1] = oldContentLines[i + 1]

\* mutant: after a match the scan goes on at the next line
RECURSIVE ReplaceScan_Overlap(_, _, _, _, _, _)
ReplaceScan_Overlap(L, oldContentLines, occurrence, startIndex, totalMatches, targetIndex) ==
  IF ~(startIndex < Len(L))
  THEN [targetIndex |-> targetIndex, totalMatches |-> totalMatches]
  ELSE IF \A i \in 0..(Len(oldContentLines) - 1) :
             ~(startIndex + i >= Len(L))
             /\ L[startIndex + i + 1] = oldContentLines[i + 1]
       THEN ReplaceScan_Overlap(L, oldContentLines, occurrence,
              startIndex + 1, totalMatches + 1,
              IF totalMatches + 1 = occurrence THEN startIndex ELSE targetIndex)
       ELSE ReplaceScan_Overlap(L, oldContentLines, occurrence,
              startIndex + 1, totalMatches, targetIndex)

\* the while loop of findAndReplaceContent
RECURSIVE ReplaceScan(_, _, _, _, _, _)
ReplaceScan(L, oldContentLines, occurrence, startIndex, totalMatches, targetIndex) ==
  IF ~(startIndex < Len(L))
  THEN [targetIndex |-> targetIndex, totalMatches |-> totalMatches]
  ELSE IF ReplaceMatches(L, oldContentLines, startIndex)
       THEN ReplaceScan(L, oldContentLines, occurrence,
              startIndex + Len(oldContentLines), totalMatches + 1,
              IF totalMatches + 1 = occurrence THEN startIndex ELSE targetIndex)
       ELSE ReplaceScan(L, oldContentLines, occurrence,
              startIndex + 1, totalMatches, targetIndex)

\* mutant: only the first line of the run is replaced
FindAndReplaceContent_FirstLine(L, oldContent, newContent, occurrence) ==
  LET oldContentLines == Split(oldContent)
      newContentLines == Split(newContent)
      scan == ReplaceScan(L, oldContentLines, occurrence, 0, 0, -1)
  IN IF scan.targetIndex # -1
     THEN [lines |-> Slice(L, 0, scan.targetIndex) \o newContentLines
                       \o Slice(L, scan.targetIndex + 1, Len(L)),
           found |-> TRUE, totalMatches |-> scan.totalMatches]
     ELSE [lines |-> L, found |-> FALSE, totalMatches |-> scan.totalMatches]

\* mutant: an empty newContent stands for no lines
FindAndReplaceContent_EmptyDrops(L, oldContent, newContent, occurrence) ==
  LET oldContentLines == Split(oldContent)
      newContentLines == IF newContent = <<>> THEN <<>> ELSE Split(newContent)
      scan == ReplaceScan(L, oldContentLines, occurrence, 0, 0, -1)
  IN IF scan.targetIndex # -1
     THEN [lines |-> Slice(L, 0, scan.targetIndex) \o newContentLines
                       \o Slice(L, scan.targetIndex + Len(oldContentLines), Len(L)),
           found |-> TRUE, totalMatches |-> scan.totalMatches]
     ELSE [lines |-> L, found |-> FALSE, totalMatches |-> scan.totalMatches]

FindAndReplaceContent(L, oldContent, newContent, occurrence) ==
  LET oldContentLines == Split(oldContent)
      newContentLines == Split(newContent)
      scan == ReplaceScan(L, oldContentLines, occurrence, 0, 0, -1)
  IN IF scan.targetIndex # -1
     THEN [lines |-> Slice(L, 0, scan.targetIndex) \o newContentLines
                       \o Slice(L, scan.targetIndex + Len(oldContentLines), Len(L)),
           found |-> TRUE, totalMatches |-> scan.totalMatches]
     ELSE [lines |-> L, found |-> FALSE, totalMatches |-> scan.totalMatches]

\* mutant: a line matches when it contains the pattern line
DeleteMatches_Includes(L, contentLines, startIndex) ==
  \A i \in 0..(Len(contentLines) - 1) :
     ~(startIndex + i >= Len(L))
     /\ Includes(L[startIndex + i + 1], contentLines[i + 1])

\* the inner for loop of findAndDeleteContent
DeleteMatches(L, contentLines, startIndex) ==
  \A i \in 0..(Len(contentLines) - 1) :
     ~(startIndex + i >= Len(L)) /\ L[startIndex + i + 1] = contentLines[i + 1]

\* mutant: the scan stops before the last line
RECURSIVE DeleteScan_StopEarly(_, _, _, _, _, _)
DeleteScan_StopEarly(L, contentLines, occurrence, startIndex, totalMatches, targetIndex) ==
  IF ~(startIndex < Len(L) - 1)
  THEN [targetIndex |-> targetIndex, totalMatches |-> totalMatches]
  ELSE IF \A i \in 0..(Len(contentLines) - 1) :
             ~(startIndex + i >= Len(L))
             /\ L[startIndex + i + 1] = contentLines[i + 1]
       THEN DeleteScan_StopEarly(L, contentLines, occurrence,
              startIndex + Len(contentLines), totalMatches + 1,
              IF totalMatches + 1 = occurrence THEN startIndex ELSE targetIndex)
       ELSE DeleteScan_StopEarly(L, contentLines, occurrence,
              startIndex + 1, totalMatches, targetIndex)

\* the while loop of findAndDeleteContent
RECURSIVE DeleteScan(_, _, _, _, _, _)
DeleteScan(L, contentLines, occurrence, startIndex, totalMatches, targetIndex) ==
  IF ~(startIndex < Len(L))
  THEN [targetIndex |-> targetIndex, totalMatches |-> totalMatches]
  ELSE IF DeleteMatches(L, contentLines, startIndex)
       THEN DeleteScan(L, contentLines, occurrence,
              startIndex + Len(contentLines), totalMatches + 1,
              IF totalMatches + 1 = occurrence THEN startIndex ELSE targetIndex)
       ELSE DeleteScan(L, contentLines, occurrence,
              startIndex + 1, totalMatches, targetIndex)

FindAndDeleteContent(L, content, occurrence) ==
  LET contentLines == Split(content)
      scan == DeleteScan(L, contentLines, occurrence, 0, 0, -1)
  IN IF scan.targetIndex # -1
     THEN [lines |-> Slice(L, 0, scan.targetIndex)
                       \o Slice(L, scan.targetIndex + Len(contentLines), Len(L)),
           found |-> TRUE, totalMatches |-> scan.totalMatches]
     ELSE [lines |-> L, found |-> FALSE, totalMatches |-> scan.totalMatches]

ReplaceContent(L, op) ==
  LET occurrence == Occurrence(op)
      result == FindAndReplaceContent(L, op.oldContent, op.newContent, occurrence)
  IN IF ~result.found
     THEN Throw(L, Err("replace_content", "not_found",
                       <<occurrence, result.totalMatches>>, Preview(op.oldContent)))
     ELSE Ok(result.lines)

DeleteContent(L, op) ==
  LET occurrence == Occurrence(op)
      result == FindAndDeleteContent(L, op.content, occurrence)
  IN IF ~result.found
     THEN Throw(L, Err("delete_content", "not_found",
                       <<occurrence, result.totalMatches>>, Preview(op.content)))
     ELSE Ok(result.lines)

\* mutant: the switch has a default case that throws
ApplyOp_ThrowDefault(L, op) ==
  CASE op.type = "insert_block" -> InsertBlock(L, op)
    [] op.type = "delete_range" -> DeleteRange(L, op)
    [] op.type = "replace_range" -> ReplaceRange(L, op)
    [] op.type = "insert_after" -> InsertAfter(L, op)
    [] op.type = "insert_before" -> InsertBefore(L, op)
    [] op.type = "replace_content" -> ReplaceContent(L, op)
    [] op.type = "delete_content" -> DeleteContent(L, op)
    [] OTHER -> Throw(L, Err(op.type, "unknown_type", <<>>, <<>>))

\* the switch of applyDiff: one iteration of the for loop; a type that no
\* case handles falls through the switch
ApplyOp(L, op) ==
  CASE op.type = "insert_block" -> InsertBlock(L, op)
    [] op.type = "delete_range" -> DeleteRange(L, op)
    [] op.type = "replace_range" -> ReplaceRange(L, op)
    [] op.type = "insert_after" -> InsertAfter(L, op)
    [] op.type = "insert_before" -> InsertBefore(L, op)
    [] op.type = "replace_content" -> ReplaceContent(L, op)
    [] op.type = "delete_content" -> DeleteContent(L, op)
    [] OTHER -> Ok(L)

\* -------------------------------------------------------- Result<void>
Pending == [settled |-> "pending", data |-> <<>>, error |-> <<>>]

\* return { data: undefined, error: undefined }
Success == [settled |-> "fulfilled", data |-> <<>>, error |-> <<>>]

\* error instanceof Error ? error : new Error(String(error))
ToError(e) == IF e.isError THEN e ELSE [e EXCEPT !.isError = TRUE]

\* the catch block of rewriteFile
RewriteFileCatch(e) == [settled |-> "fulfilled", data |-> <<>>, error |-> <<ToError(e)>>]

\* mutant: the catch block throws the error on
ApplyDiffCatch_Rethrow(e) == [settled |-> "rejected", data |-> <<>>, error |-> <<e>>]

\* the catch block of applyDiff
ApplyDiffCatch(e) == [settled |-> "fulfilled", data |-> <<>>, error |-> <<ToError(e)>>]

\* a rejection of fs.readFile / fs.writeFile / fs.mkdir
FsError(call, code) == Err(call, code, <<>>, <<>>)

\* ----------------------------------------------------------- input sets
sE == <<>>
sA == <<"a">>
sB == <<"b">>
sAB == <<"a", "b">>
sAnA == <<"a", NL, "a">>
sAnB == <<"a", NL, "b">>
sBnB == <<"b", NL, "b">>
sBnA == <<"b", NL, "a">>

Occs == {<<>>} \cup {<<n>> : n \in (-1)..MaxOcc}

OpInsertBlock(n, ls) == [type |-> "insert_block", lineNumber |-> n, lines |-> ls]
OpDeleteRange(s, e) == [type |-> "delete_range", startLine |-> s, endLine |-> e]
OpReplaceRange(s, e, ls) ==
  [type |-> "replace_range", startLine |-> s, endLine |-> e, lines |-> ls]
OpInsertAfter(sc, c, o) ==
  [type |-> "insert_after", searchContent |-> sc, content |-> c, occurrence |-> o]
OpInsertBefore(sc, c, o) ==
  [type |-> "insert_before", searchContent |-> sc, content |-> c, occurrence |-> o]
OpReplaceContent(oc, nc, o) ==
  [type |-> "replace_content", oldContent |-> oc, newContent |-> nc, occurrence |-> o]
OpDeleteContent(c, o) == [type |-> "delete_content", content |-> c, occurrence |-> o]

\* the single-line operations of file-tool.md; the switch of applyDiff has no
\* case for their types
OpInsert(n, c) == [type |-> "insert", lineNumber |-> n, content |-> c]
OpDelete(n) == [type |-> "delete", lineNumber |-> n]
OpReplace(n, c) == [type |-> "replace", lineNumber |-> n, content |-> c]

\* the operations offered to one engine step
LineNums == (-1)..(MaxLines + 1)
Blocks == {<<>>, <<sB>>, <<sA, sB>>}
SearchStrs == {sE, sA, sB, sAB}
InsertStrs == {sB, sAnB}
OldStrs == {sE, sA, sAnA, sAnB}
NewStrs == {sE, sB, sBnA}

EngineOps ==
  {OpInsertBlock(n, ls) : n \in LineNums, ls \in Blocks}
  \cup {OpDeleteRange(s, e) : s \in LineNums, e \in LineNums}
  \cup {OpReplaceRange(s, e, ls) : s \in LineNums, e \in LineNums, ls \in Blocks}
  \cup {OpInsertAfter(sc, c, o) : sc \in SearchStrs, c \in InsertStrs, o \in Occs}
  \cup {OpInsertBefore(sc, c, o) : sc \in SearchStrs, c \in InsertStrs, o \in Occs}
  \cup {OpReplaceContent(oc, nc, o) : oc \in OldStrs, nc \in NewStrs, o \in Occs}
  \cup {OpDeleteContent(c, o) : c \in OldStrs, o \in Occs}
  \cup {OpInsert(n, sB) : n \in LineNums}
  \cup {OpDelete(n) : n \in LineNums}
  \cup {OpReplace(n, sB) : n \in LineNums}

\* the line sequences an engine run starts from
EngineLineStrs == {sE, sA, sB, sAB, sAnB}
EngineLineSeqs == SeqsUpTo(EngineLineStrs, MaxLines)

\* the operations a diff of applyDiff is made of
DiffOps ==
  { OpInsertBlock(2, <<sB>>),
    OpInsertBlock(0, <<sA, sB>>),
    OpDeleteRange(2, 2),
    OpDeleteRange(1, 1),
    OpReplaceRange(1, 2, <<sA>>),
    OpInsertAfter(sA, sBnB, <<>>),
    OpInsertBefore(sB, sA, <<2>>),
    OpReplaceContent(sAnB, sB, <<>>),
    OpDeleteContent(sB, <<1>>),
    OpDelete(2) }

Diffs == SeqsUpTo(DiffOps, MaxOps)

\* the file contents a run starts from or rewriteFile is given
FileLineStrs == {sE, sA, sB}
Contents == {Join(L) : L \in SeqsUpTo(FileLineStrs, MaxFileLines) \ {<<>>}}

\* ------------------------------------------- text generation service: data
\* the parameters of a TextGenerationConfig that the service hands on
ConfigParams ==
  {"temperature", "maxTokens", "topP", "frequencyPenalty", "presencePenalty",
   "headers", "stopSequences"}

\* the fields of a TextGenerationConfig
ConfigKeys == ConfigParams \cup {"model"}

\* a field of an object: not an own property, an own property holding
\* undefined, an own property holding a value
Absent == [present |-> FALSE, defined |-> FALSE, value |-> 0]
Undefined == [present |-> TRUE, defined |-> FALSE, value |-> 0]
Value(v) == [present |-> TRUE, defined |-> TRUE, value |-> v]

\* {} ; also what spreading an omitted config adds
EmptyConfig == [k \in ConfigKeys |-> Absent]

\* mutant: the defaults override the config of the request
MergeConfig_DefaultsWin(d, c) ==
  [k \in ConfigKeys |-> IF d[k].present THEN d[k] ELSE c[k]]

\* { ...this.defaultConfig, ...config }
MergeConfig(d, c) ==
  [k \in ConfigKeys |-> IF c[k].present THEN c[k] ELSE d[k]]

\* the fields of the argument object of the SDK's generateText / streamText
SdkKeys == {"model", "prompt"} \cup ConfigParams

\* this.model, the LanguageModel of the constructor; the prompt argument
ThisModel == Value(0)
Prompt == Value(0)

NoSdkArgs == [k \in SdkKeys |-> Absent]

\* { model: this.model, prompt, ...(mergedConfig.x !== undefined && { x: mergedConfig.x }) ... }
SdkCallArgs(mergedConfig) ==
  [k \in SdkKeys |->
     CASE k = "model" -> ThisModel
       [] k = "prompt" -> Prompt
       [] OTHER -> IF mergedConfig[k].defined THEN mergedConfig[k] ELSE Absent]

\* z.enum([...]) of AISDKFinishReasonSchema
AISDKFinishReasons ==
  {"stop", "length", "content-filter", "error", "tool-calls", "unknown", "other"}

\* the finishReason type of TextGenerationResult
DomainFinishReasons == {"stop", "length", "content-filter", "error", "other"}

\* mutant: the SDK's reason is handed on as it is
MapFinishReason_PassThrough(sdkFinishReason) == sdkFinishReason

MapFinishReason(sdkFinishReason) ==
  CASE sdkFinishReason = "stop" -> "stop"
    [] sdkFinishReason = "length" -> "length"
    [] sdkFinishReason = "content-filter" -> "content-filter"
    [] sdkFinishReason = "error" -> "error"
    [] OTHER -> "other"

\* a promise of the service: pending, fulfilled (with the finish reason of
\* the value, "" when the value has none) or rejected
GenPending == [settled |-> "pending", finishReason |-> ""]
GenFulfilled(r) == [settled |-> "fulfilled", finishReason |-> r]
GenRejected == [settled |-> "rejected", finishReason |-> ""]

\* AISDKGenerateTextResponseSchema.parse(sdkResult) throws or the result
\* carries the mapped finish reason
AdaptGenerateTextResult(sdkResult) ==
  IF sdkResult.wellFormed /\ sdkResult.finishReason \in AISDKFinishReasons
  THEN GenFulfilled(MapFinishReason(sdkResult.finishReason))
  ELSE GenRejected

\* the async function behind metadata: AISDKUsageSchema.parse(usage) or
\* AISDKFinishReasonSchema.parse(finishReason) throws, or the metadata
\* carries the mapped finish reason
AdaptStreamMetadata(sdkResult) ==
  IF sdkResult.wellFormed /\ sdkResult.finishReason \in AISDKFinishReasons
  THEN GenFulfilled(MapFinishReason(sdkResult.finishReason))
  ELSE GenRejected

\* the configs of the constructor and of the calls: no field, one field or
\* every field, holding undefined or a value
ConfigValues == {1, 2}
ConfigEntries == {Undefined} \cup {Value(v) : v \in ConfigValues}
ConfigKeySets == {{}} \cup {{k} : k \in ConfigKeys} \cup {ConfigKeys}
ConfigOf(S, e) == [k \in ConfigKeys |-> IF k \in S THEN e ELSE Absent]
Configs == {ConfigOf(S, e) : S \in ConfigKeySets, e \in ConfigEntries}

\* what the SDK reports as finishReason: a reason of the schema or one the
\* schema does not list
SdkReasons == AISDKFinishReasons \cup {"unlisted"}
SdkResults == [finishReason : SdkReasons, wellFormed : BOOLEAN]

\* ---------------------------------------------------------------- state
Procs == {1, 2}

VARIABLES
  fileExists,  \* the file at the path exists
  file,        \* its content
  dirExists,   \* the parent directory of the path exists
  pc,          \* per call: idle, ad_read, ad_loop, rw_mkdir, rw_write, done
  diff,        \* applyDiff: diff.operations
  idx,         \* applyDiff: position of the for loop in diff.operations (1-based)
  lines,       \* applyDiff: the local lines
  content,     \* applyDiff: the content read; rewriteFile: the content argument
  result,      \* the promise returned by the call
  before,      \* history: the file when the call was made
  evals,       \* history: switch evaluations of this call
  reads,       \* history: fs.readFile calls of this call
  writes,      \* history: fs.writeFile calls of this call
  eLines,      \* engine run: the line sequence
  ePrev,       \* engine run: the line sequence before the last operation
  eOp,         \* engine run: the last operation
  eOut,        \* engine run: the outcome of the last operation
  sPc,           \* scan: idle, scan (in the while loop), done
  sKind,         \* scan: replace_content (findAndReplaceContent) or delete_content
  sLines,        \* scan: the parameter lines
  sPattern,      \* scan: oldContentLines / contentLines
  sOccurrence,   \* scan: the parameter occurrence
  sStartIndex,   \* scan: the local startIndex
  sTotalMatches, \* scan: the local totalMatches
  sTargetIndex,  \* scan: the local targetIndex
  sIters,        \* history: iterations of the while loop so far
  defaultConfig, \* service: the constructor's defaultConfig
  gPc,           \* service: idle, gen_await, stream_await, meta_await, done
  gConfig,       \* service: the config argument of the call
  sdkFn,         \* service: the SDK function called
  sdkArgs,       \* service: the argument object handed to the SDK function
  sdkReason,     \* service: the finish reason the SDK reported
  gResult,       \* service: the promise returned by generateText / streamText
  gMetadata      \* service: the metadata promise of a TextStreamResult

fsVars == <<fileExists, file, dirExists>>
callVars == <<pc, diff, idx, lines, content, result, before, evals, reads, writes>>
engineVars == <<eLines, ePrev, eOp, eOut>>
scanVars == <<sPc, sKind, sLines, sPattern, sOccurrence, sStartIndex, sTotalMatches,
              sTargetIndex, sIters>>
genVars == <<defaultConfig, gPc, gConfig, sdkFn, sdkArgs, sdkReason, gResult, gMetadata>>
vars == <<fileExists, file, dirExists, pc, diff, idx, lines, content, result, before, evals,
          reads, writes, eLines, ePrev, eOp, eOut, sPc, sKind, sLines, sPattern,
          sOccurrence, sStartIndex, sTotalMatches, sTargetIndex, sIters, defaultConfig,
          gPc, gConfig, sdkFn, sdkArgs, sdkReason, gResult, gMetadata>>

NoOp == [type |-> "none"]
NoFile == [exists |-> FALSE, content |-> <<>>, dir |-> FALSE]

CallInit ==
  /\ pc = [p \in Procs |-> "idle"]
  /\ diff = [p \in Procs |-> <<>>]
  /\ idx = [p \in Procs |-> 0]
  /\ lines = [p \in Procs |-> <<>>]
  /\ content = [p \in Procs |-> <<>>]
  /\ result = [p \in Procs |-> Pending]
  /\ before = [p \in Procs |-> NoFile]
  /\ evals = [p \in Procs |-> 0]
  /\ reads = [p \in Procs |-> 0]
  /\ writes = [p \in Procs |-> 0]

EngineIdle ==
  /\ eLines = <<>>
  /\ ePrev = <<>>
  /\ eOp = NoOp
  /\ eOut = Ok(<<>>)

ScanIdle ==
  /\ sPc = "idle"
  /\ sKind = "none"
  /\ sLines = <<>>
  /\ sPattern = <<>>
  /\ sOccurrence = 0
  /\ sStartIndex = 0
  /\ sTotalMatches = 0
  /\ sTargetIndex = -1
  /\ sIters = 0

GenCallIdle ==
  /\ gPc = "idle"
  /\ gConfig = EmptyConfig
  /\ sdkFn = "none"
  /\ sdkArgs = NoSdkArgs
  /\ sdkReason = ""
  /\ gResult = GenPending
  /\ gMetadata = GenPending

GenIdle ==
  /\ defaultConfig = EmptyConfig
  /\ GenCallIdle

Init ==
  /\ \/ fileExists = FALSE /\ file = <<>> /\ dirExists \in BOOLEAN
     \/ fileExists = TRUE /\ file \in Contents /\ dirExists = TRUE
  /\ CallInit
  /\ EngineIdle
  /\ ScanIdle
  /\ GenIdle

\* the model follows calls on files of at most MaxFileLines lines
FileInBounds == fileExists => Len(Split(file)) <= MaxFileLines

\* ------------------------------------------------------------ applyDiff
ApplyDiffCallWith(p, D) ==
  /\ pc[p] = "idle"
  /\ FileInBounds
  /\ \E d \in D : diff' = [diff EXCEPT ![p] = d]
  /\ pc' = [pc EXCEPT ![p] = "ad_read"]
  /\ before' = [before EXCEPT ![p] = [exists |-> fileExists, content |-> file, dir |-> dirExists]]
  /\ UNCHANGED <<fsVars, idx, lines, content, result, evals, reads, writes, engineVars, scanVars, genVars>>

ApplyDiffCall(p) == ApplyDiffCallWith(p, Diffs)

\* mutant: a file that cannot be read is taken as empty
ApplyDiffRead_CreateMissing(p) ==
  /\ pc[p] = "ad_read"
  /\ reads' = [reads EXCEPT ![p] = @ + 1]
  /\ content' = [content EXCEPT ![p] = IF fileExists THEN file ELSE <<>>]
  /\ lines' = [lines EXCEPT ![p] = Split(IF fileExists THEN file ELSE <<>>)]
  /\ idx' = [idx EXCEPT ![p] = 1]
  /\ pc' = [pc EXCEPT ![p] = "ad_loop"]
  /\ UNCHANGED <<result, fsVars, diff, before, evals, writes, engineVars, scanVars, genVars>>

\* await fs.readFile(filePath, "utf-8"); content.split("\n")
ApplyDiffRead(p) ==
  /\ pc[p] = "ad_read"
  /\ reads' = [reads EXCEPT ![p] = @ + 1]
  /\ \/ /\ fileExists
        /\ content' = [content EXCEPT ![p] = file]
        /\ lines' = [lines EXCEPT ![p] = Split(file)]
        /\ idx' = [idx EXCEPT ![p] = 1]
        /\ pc' = [pc EXCEPT ![p] = "ad_loop"]
        /\ UNCHANGED result
     \/ /\ \E code \in (IF fileExists THEN {"EACCES"} ELSE {"ENOENT"}) :
             result' = [result EXCEPT ![p] = ApplyDiffCatch(FsError("readFile", code))]
        /\ pc' = [pc EXCEPT ![p] = "done"]
        /\ UNCHANGED <<content, lines, idx>>
  /\ UNCHANGED <<fsVars, diff, before, evals, writes, engineVars, scanVars, genVars>>

\* mutant: the file is written after every operation that succeeds
ApplyDiffStep_WriteEach(p) ==
  /\ pc[p] = "ad_loop"
  /\ idx[p] <= Len(diff[p])
  /\ evals' = [evals EXCEPT ![p] = @ + 1]
  /\ LET r == ApplyOp(lines[p], diff[p][idx[p]])
     IN IF r.ok
        THEN /\ lines' = [lines EXCEPT ![p] = r.lines]
             /\ idx' = [idx EXCEPT ![p] = @ + 1]
             /\ file' = Join(r.lines)
             /\ UNCHANGED <<pc, result, fileExists, dirExists>>
        ELSE /\ result' = [result EXCEPT ![p] = ApplyDiffCatch(r.error[1])]
             /\ pc' = [pc EXCEPT ![p] = "done"]
             /\ UNCHANGED <<lines, idx, fsVars>>
  /\ UNCHANGED <<diff, content, before, reads, writes, engineVars, scanVars, genVars>>

\* mutant: every operation is resolved against the lines of the file as read
ApplyDiffStep_OnOriginal(p) ==
  /\ pc[p] = "ad_loop"
  /\ idx[p] <= Len(diff[p])
  /\ evals' = [evals EXCEPT ![p] = @ + 1]
  /\ LET r == ApplyOp(Split(content[p]), diff[p][idx[p]])
     IN IF r.ok
        THEN /\ lines' = [lines EXCEPT ![p] = r.lines]
             /\ idx' = [idx EXCEPT ![p] = @ + 1]
             /\ UNCHANGED <<pc, result>>
        ELSE /\ result' = [result EXCEPT ![p] = ApplyDiffCatch(r.error[1])]
             /\ pc' = [pc EXCEPT ![p] = "done"]
             /\ UNCHANGED <<lines, idx>>
  /\ UNCHANGED <<fsVars, diff, content, before, reads, writes, engineVars, scanVars, genVars>>

\* mutant: a failing operation is skipped and the loop goes on
ApplyDiffStep_SkipFailed(p) ==
  /\ pc[p] = "ad_loop"
  /\ idx[p] <= Len(diff[p])
  /\ evals' = [evals EXCEPT ![p] = @ + 1]
  /\ lines' = [lines EXCEPT ![p] = ApplyOp(lines[p], diff[p][idx[p]]).lines]
  /\ idx' = [idx EXCEPT ![p] = @ + 1]
  /\ UNCHANGED <<pc, result>>
  /\ UNCHANGED <<fsVars, diff, content, before, reads, writes, engineVars, scanVars, genVars>>

\* one iteration of  for (const operation of diff.operations) switch ...
ApplyDiffStep(p) ==
  /\ pc[p] = "ad_loop"
  /\ idx[p] <= Len(diff[p])
  /\ evals' = [evals EXCEPT ![p] = @ + 1]
  /\ LET r == ApplyOp(lines[p], diff[p][idx[p]])
     IN IF r.ok
        THEN /\ lines' = [lines EXCEPT ![p] = r.lines]
             /\ idx' = [idx EXCEPT ![p] = @ + 1]
             /\ UNCHANGED <<pc, result>>
        ELSE /\ result' = [result EXCEPT ![p] = ApplyDiffCatch(r.error[1])]
             /\ pc' = [pc EXCEPT ![p] = "done"]
             /\ UNCHANGED <<lines, idx>>
  /\ UNCHANGED <<fsVars, diff, content, before, reads, writes, engineVars, scanVars, genVars>>

\* mutant: a file that changed since the read is not overwritten
ApplyDiffWrite_CheckStale(p) ==
  /\ pc[p] = "ad_loop"
  /\ idx[p] > Len(diff[p])
  /\ writes' = [writes EXCEPT ![p] = @ + 1]
  /\ pc' = [pc EXCEPT ![p] = "done"]
  /\ \/ /\ file = content[p]
        /\ file' = Join(lines[p])
        /\ fileExists' = TRUE
        /\ UNCHANGED dirExists
        /\ result' = [result EXCEPT ![p] = Success]
     \/ /\ result' = [result EXCEPT ![p] =
                       ApplyDiffCatch(FsError("writeFile",
                                              IF file = content[p] THEN "EACCES" ELSE "STALE"))]
        /\ UNCHANGED fsVars
  /\ UNCHANGED <<diff, idx, lines, content, before, evals, reads, engineVars, scanVars, genVars>>

\* await fs.writeFile(filePath, lines.join("\n"), "utf-8"); return success
ApplyDiffWrite(p) ==
  /\ pc[p] = "ad_loop"
  /\ idx[p] > Len(diff[p])
  /\ writes' = [writes EXCEPT ![p] = @ + 1]
  /\ pc' = [pc EXCEPT ![p] = "done"]
  /\ \/ /\ file' = Join(lines[p])
        /\ fileExists' = TRUE
        /\ UNCHANGED dirExists
        /\ result' = [result EXCEPT ![p] = Success]
     \/ /\ result' = [result EXCEPT ![p] = ApplyDiffCatch(FsError("writeFile", "EACCES"))]
        /\ UNCHANGED fsVars
  /\ UNCHANGED <<diff, idx, lines, content, before, evals, reads, engineVars, scanVars, genVars>>

\* ---------------------------------------------------------- rewriteFile
RewriteFileCall(p) ==
  /\ pc[p] = "idle"
  /\ \E c \in Contents : content' = [content EXCEPT ![p] = c]
  /\ pc' = [pc EXCEPT ![p] = "rw_mkdir"]
  /\ before' = [before EXCEPT ![p] = [exists |-> fileExists, content |-> file, dir |-> dirExists]]
  /\ UNCHANGED <<fsVars, diff, idx, lines, result, evals, reads, writes, engineVars, scanVars, genVars>>

\* await fs.mkdir(dir, { recursive: true })
RewriteFileMkdir(p) ==
  /\ pc[p] = "rw_mkdir"
  /\ \/ /\ pc' = [pc EXCEPT ![p] = "rw_write"]
        /\ dirExists' = TRUE
        /\ UNCHANGED result
     \/ /\ result' = [result EXCEPT ![p] = RewriteFileCatch(FsError("mkdir", "EACCES"))]
        /\ pc' = [pc EXCEPT ![p] = "done"]
        /\ UNCHANGED dirExists
  /\ UNCHANGED <<fileExists, file, diff, idx, lines, content, before, evals, reads, writes,
                 engineVars, scanVars, genVars>>

\* mutant: the content is appended to the file
RewriteFileWrite_Append(p) ==
  /\ pc[p] = "rw_write"
  /\ writes' = [writes EXCEPT ![p] = @ + 1]
  /\ pc' = [pc EXCEPT ![p] = "done"]
  /\ dirExists
  /\ file' = file \o content[p]
  /\ fileExists' = TRUE
  /\ result' = [result EXCEPT ![p] = Success]
  /\ UNCHANGED <<dirExists, diff, idx, lines, content, before, evals, reads, engineVars, scanVars, genVars>>

\* await fs.writeFile(filePath, content, "utf-8"); return success
RewriteFileWrite(p) ==
  /\ pc[p] = "rw_write"
  /\ writes' = [writes EXCEPT ![p] = @ + 1]
  /\ pc' = [pc EXCEPT ![p] = "done"]
  /\ \/ /\ dirExists
        /\ file' = content[p]
        /\ fileExists' = TRUE
        /\ UNCHANGED dirExists
        /\ result' = [result EXCEPT ![p] = Success]
     \/ /\ result' = [result EXCEPT ![p] = RewriteFileCatch(FsError("writeFile", "EACCES"))]
        /\ UNCHANGED fsVars
  /\ UNCHANGED <<diff, idx, lines, content, before, evals, reads, engineVars, scanVars, genVars>>

\* the caller has the Result; the locals of the call are gone
Return(p) ==
  /\ pc[p] = "done"
  /\ pc' = [pc EXCEPT ![p] = "idle"]
  /\ diff' = [diff EXCEPT ![p] = <<>>]
  /\ idx' = [idx EXCEPT ![p] = 0]
  /\ lines' = [lines EXCEPT ![p] = <<>>]
  /\ content' = [content EXCEPT ![p] = <<>>]
  /\ result' = [result EXCEPT ![p] = Pending]
  /\ before' = [before EXCEPT ![p] = NoFile]
  /\ evals' = [evals EXCEPT ![p] = 0]
  /\ reads' = [reads EXCEPT ![p] = 0]
  /\ writes' = [writes EXCEPT ![p] = 0]
  /\ UNCHANGED <<fsVars, engineVars, scanVars, genVars>>

Call(p) ==
  \/ ApplyDiffCall(p)
  \/ ApplyDiffRead(p)
  \/ ApplyDiffStep(p)
  \/ ApplyDiffWrite(p)
  \/ RewriteFileCall(p)
  \/ RewriteFileMkdir(p)
  \/ RewriteFileWrite(p)
  \/ Return(p)

\* one caller that awaits each call before making the next
Next == Call(1)

Spec == Init /\ [][Next]_vars

\* ------------------------------------------------- two overlapping calls
\* two callers, each making one applyDiff call on the same path without
\* awaiting the other; the calls interleave at their awaits
ConcOps ==
  { OpInsertBlock(0, <<sA, sB>>),
    OpDeleteRange(2, 2),
    OpInsertAfter(sA, sBnB, <<>>) }

ConcDiffs == SeqsUpTo(ConcOps, MaxOps)

ConcContents == {sA, sAnB}

ConcInit ==
  /\ fileExists = TRUE
  /\ file \in ConcContents
  /\ dirExists = TRUE
  /\ CallInit
  /\ EngineIdle
  /\ ScanIdle
  /\ GenIdle

ConcApplyDiffCall(p) == ApplyDiffCallWith(p, ConcDiffs)

ConcNext ==
  \E p \in Procs :
    \/ ConcApplyDiffCall(p)
    \/ ApplyDiffRead(p)
    \/ ApplyDiffStep(p)
    \/ ApplyDiffWrite(p)

SpecConc == ConcInit /\ [][ConcNext]_vars

\* ------------------------------------------------------- the engine alone
\* one iteration of the for loop of applyDiff, on any line sequence the loop
\* can hold (empty after a delete_range of every line, an element with a line
\* break after an insert_after) and any operation
EngineInit ==
  /\ fileExists = FALSE
  /\ file = <<>>
  /\ dirExists = FALSE
  /\ CallInit
  /\ eLines \in EngineLineSeqs
  /\ ePrev = eLines
  /\ eOp = NoOp
  /\ eOut = Ok(eLines)
  /\ ScanIdle
  /\ GenIdle

EngineStep ==
  /\ eOp = NoOp
  /\ \E op \in EngineOps :
       /\ eOp' = op
       /\ eOut' = ApplyOp(eLines, op)
       /\ eLines' = ApplyOp(eLines, op).lines
  /\ ePrev' = eLines
  /\ UNCHANGED <<fsVars, callVars, scanVars, genVars>>

EngineNext == EngineStep

SpecEngine == EngineInit /\ [][EngineNext]_vars

\* ------------------------------------- the scan of the multi-line matchers
\* findAndReplaceContent / findAndDeleteContent entered: the patterns are
\* split, the locals of the while loop initialised
ScanOccurrences == (-1)..MaxOcc

ScanInit ==
  /\ fileExists = FALSE
  /\ file = <<>>
  /\ dirExists = FALSE
  /\ CallInit
  /\ EngineIdle
  /\ GenIdle
  /\ sPc = "scan"
  /\ sKind \in {"replace_content", "delete_content"}
  /\ sLines \in EngineLineSeqs
  /\ sPattern \in {Split(c) : c \in OldStrs}
  /\ sOccurrence \in ScanOccurrences
  /\ sStartIndex = 0
  /\ sTotalMatches = 0
  /\ sTargetIndex = -1
  /\ sIters = 0

\* mutant: a position that does not match is tried again
ScanIteration_Retry ==
  /\ sPc = "scan"
  /\ sStartIndex < Len(sLines)
  /\ sIters <= Len(sLines)
  /\ sIters' = sIters + 1
  /\ IF \A i \in 0..(Len(sPattern) - 1) :
          ~(sStartIndex + i >= Len(sLines))
          /\ sLines[sStartIndex + i + 1] = sPattern[i + 1]
     THEN /\ sTotalMatches' = sTotalMatches + 1
          /\ sTargetIndex' =
               IF sTotalMatches + 1 = sOccurrence THEN sStartIndex ELSE sTargetIndex
          /\ sStartIndex' = sStartIndex + Len(sPattern)
     ELSE /\ UNCHANGED <<sTotalMatches, sTargetIndex, sStartIndex>>
  /\ UNCHANGED <<sPc, sKind, sLines, sPattern, sOccurrence>>
  /\ UNCHANGED <<fsVars, callVars, engineVars, genVars>>

\* one iteration of  while (startIndex < lines.length) ; the model follows
\* a scan for Len(sLines) + 1 iterations at most
ScanIteration ==
  /\ sPc = "scan"
  /\ sStartIndex < Len(sLines)
  /\ sIters <= Len(sLines)
  /\ sIters' = sIters + 1
  /\ IF (IF sKind = "replace_content"
         THEN ReplaceMatches(sLines, sPattern, sStartIndex)
         ELSE DeleteMatches(sLines, sPattern, sStartIndex))
     THEN /\ sTotalMatches' = sTotalMatches + 1
          /\ sTargetIndex' =
               IF sTotalMatches + 1 = sOccurrence THEN sStartIndex ELSE sTargetIndex
          /\ sStartIndex' = sStartIndex + Len(sPattern)
     ELSE /\ sStartIndex' = sStartIndex + 1
          /\ UNCHANGED <<sTotalMatches, sTargetIndex>>
  /\ UNCHANGED <<sPc, sKind, sLines, sPattern, sOccurrence>>
  /\ UNCHANGED <<fsVars, callVars, engineVars, genVars>>

\* the loop condition is false: the scan is over
ScanExit ==
  /\ sPc = "scan"
  /\ ~(sStartIndex < Len(sLines))
  /\ sPc' = "done"
  /\ UNCHANGED <<sKind, sLines, sPattern, sOccurrence, sStartIndex, sTotalMatches,
                 sTargetIndex, sIters>>
  /\ UNCHANGED <<fsVars, callVars, engineVars, genVars>>

ScanNext == ScanIteration \/ ScanExit

\* the loop is synchronous code: it runs on while it can
SpecScan == ScanInit /\ [][ScanNext]_vars /\ WF_vars(ScanNext)

\* ---------------------------------------------- text generation service
\* new VercelAITextGenerationService(model, defaultConfig)
GenInit ==
  /\ fileExists = FALSE
  /\ file = <<>>
  /\ dirExists = FALSE
  /\ CallInit
  /\ EngineIdle
  /\ ScanIdle
  /\ defaultConfig \in Configs
  /\ GenCallIdle

\* a call of an SDK function with the merged config
SdkCall(fn, next) ==
  /\ gPc = "idle"
  /\ \E config \in Configs :
       /\ gConfig' = config
       /\ sdkArgs' = SdkCallArgs(MergeConfig(defaultConfig, config))
  /\ sdkFn' = fn
  /\ gPc' = next
  /\ UNCHANGED <<defaultConfig, sdkReason, gResult, gMetadata>>
  /\ UNCHANGED <<fsVars, callVars, engineVars, scanVars>>

\* generateText(prompt, config) up to  await generateText({...})
GenerateTextCall == SdkCall("generateText", "gen_await")

\* the SDK's promise settles; return this.adaptGenerateTextResult(result)
GenerateTextSettle ==
  /\ gPc = "gen_await"
  /\ gPc' = "done"
  /\ \/ /\ gResult' = GenRejected
        /\ UNCHANGED sdkReason
     \/ \E sdkResult \in SdkResults :
          /\ sdkReason' = sdkResult.finishReason
          /\ gResult' = AdaptGenerateTextResult(sdkResult)
  /\ UNCHANGED <<defaultConfig, gConfig, sdkFn, sdkArgs, gMetadata>>
  /\ UNCHANGED <<fsVars, callVars, engineVars, scanVars>>

\* streamText(prompt, config) up to  await streamText({...})
StreamTextCall == SdkCall("streamText", "stream_await")

\* the SDK's promise settles; return this.adaptStreamTextResult(result):
\* the result holds the stream and the metadata promise, still pending
StreamTextSettle ==
  /\ gPc = "stream_await"
  /\ \/ /\ gResult' = GenRejected
        /\ gPc' = "done"
     \/ /\ gResult' = GenFulfilled("")
        /\ gPc' = "meta_await"
  /\ UNCHANGED <<defaultConfig, gConfig, sdkFn, sdkArgs, sdkReason, gMetadata>>
  /\ UNCHANGED <<fsVars, callVars, engineVars, scanVars>>

\* Promise.all([usage, finishReason, providerMetadata]) settles; the
\* metadata promise settles with it
MetadataSettle ==
  /\ gPc = "meta_await"
  /\ gPc' = "done"
  /\ \/ /\ gMetadata' = GenRejected
        /\ UNCHANGED sdkReason
     \/ \E sdkResult \in SdkResults :
          /\ sdkReason' = sdkResult.finishReason
          /\ gMetadata' = AdaptStreamMetadata(sdkResult)
  /\ UNCHANGED <<defaultConfig, gConfig, sdkFn, sdkArgs, gResult>>
  /\ UNCHANGED <<fsVars, callVars, engineVars, scanVars>>

GenNext ==
  \/ GenerateTextCall
  \/ GenerateTextSettle
  \/ StreamTextCall
  \/ StreamTextSettle
  \/ MetadataSettle

SpecGen == GenInit /\ [][GenNext]_vars

\* ------------------------------------------------------------ reference
\* the line sequence after the first k operations of d, each applied to the
\* result of the one before
RECURSIVE AfterOps(_, _, _)
AfterOps(L, d, k) == IF k = 0 THEN L ELSE ApplyOp(AfterOps(L, d, k - 1), d[k]).lines

\* operation k of d fails on the line sequence the operations before it leave
FailsAt(L, d, k) == ~ApplyOp(AfterOps(L, d, k - 1), d[k]).ok

OpErrorKinds == {"out_of_bounds", "invalid_range", "not_found"}

\* the call of p has returned the error thrown by an operation of its diff
OpFailed(p) ==
  /\ pc[p] = "done"
  /\ result[p].error # <<>>
  /\ result[p].error[1].kind \in OpErrorKinds

\* the call of p is an applyDiff call that has returned success
DiffSucceeded(p) ==
  /\ pc[p] = "done"
  /\ reads[p] = 1
  /\ result[p].error = <<>>

\* ---------------------------------------------------------------- claims
\* C1: when an operation of the diff fails, applyDiff has made no write and
\* the file is what it was before the call, also when earlier operations of
\* the diff had succeeded in memory.
Thm_C1 ==
  OpFailed(1) =>
    /\ writes[1] = 0
    /\ fileExists = before[1].exists
    /\ file = before[1].content

Wit_C1 ==
  /\ OpFailed(1)
  /\ evals[1] >= 2
  /\ lines[1] # Split(content[1])
  /\ file = content[1]

\* C2: the operations are applied in list order, operation k to the line
\* sequence left by operations 1..k-1: inside the loop the local lines are
\* AfterOps of the content read, a successful call writes the join of AfterOps
\* of the whole diff, and delete_range(2,2) then insert_block(2,[b]) on
\* [a,b,a] gives [a,a,b].
Thm_C2 ==
  /\ pc[1] = "ad_loop" =>
       lines[1] = AfterOps(Split(content[1]), diff[1], idx[1] - 1)
  /\ DiffSucceeded(1) =>
       file = Join(AfterOps(Split(content[1]), diff[1], Len(diff[1])))
  /\ ( /\ pc[1] = "ad_loop"
       /\ content[1] = <<"a", NL, "b", NL, "a">>
       /\ diff[1] = <<OpDeleteRange(2, 2), OpInsertBlock(2, <<sB>>)>>
       /\ idx[1] = 3 ) => lines[1] = <<sA, sA, sB>>

Wit_C2 ==
  /\ pc[1] = "ad_loop"
  /\ content[1] = <<"a", NL, "b", NL, "a">>
  /\ diff[1] = <<OpDeleteRange(2, 2), OpInsertBlock(2, <<sB>>)>>
  /\ idx[1] = 3

\* C3: applyDiff stops at the first failing operation: the error returned is
\* the one of the lowest-index operation that fails on the then-current
\* lines, that operation is the last one evaluated, the file was read once,
\* and a call that returns success had no failing operation.
Thm_C3 ==
  /\ OpFailed(1) =>
       LET L0 == Split(content[1])
           k == idx[1]
       IN /\ k \in 1..Len(diff[1])
          /\ \A j \in 1..(k - 1) : ~FailsAt(L0, diff[1], j)
          /\ FailsAt(L0, diff[1], k)
          /\ result[1].error = ApplyOp(AfterOps(L0, diff[1], k - 1), diff[1][k]).error
          /\ evals[1] = k
          /\ reads[1] = 1
  /\ DiffSucceeded(1) =>
       /\ \A j \in 1..Len(diff[1]) : ~FailsAt(Split(content[1]), diff[1], j)
       /\ evals[1] = Len(diff[1])

Wit_C3 ==
  /\ OpFailed(1)
  /\ idx[1] = 1
  /\ Len(diff[1]) = 2
  /\ ~ApplyOp(Split(content[1]), diff[1][2]).ok

\* C4: applyDiff and rewriteFile never reject: every call that has returned
\* has a fulfilled Result whose data is undefined and whose error is
\* undefined or an Error; the error is undefined only when the write was made
\* (the file then holds what the call had to write).
Thm_C4 ==
  \A p \in Procs :
    /\ result[p].settled # "rejected"
    /\ pc[p] = "done" =>
         /\ result[p].settled = "fulfilled"
         /\ result[p].data = <<>>
         /\ \/ /\ result[p].error = <<>>
               /\ writes[p] = 1
               /\ fileExists
               /\ file = (IF reads[p] = 1 THEN Join(lines[p]) ELSE content[p])
            \/ /\ Len(result[p].error) = 1
               /\ result[p].error[1].isError
               /\ result[p].error[1].kind \in OpErrorKinds \cup {"ENOENT", "EACCES"}

Wit_C4 ==
  /\ pc[1] = "done"
  /\ result[1].error # <<>>
  /\ result[1].error[1].type = "writeFile"
  /\ reads[1] = 0

\* ------------------------------------------------- claims on the engine
\* the 1-based positions of the lines of L that contain search
ContainingLines(L, search) == {i \in 1..Len(L) : Includes(L[i], search)}

\* the n-th smallest element of the set S of positions, as a set (empty when
\* there is none)
Nth(S, n) == {t \in S : Cardinality({j \in S : j <= t}) = n}

\* the run of Len(P) lines of L that starts at position i (1-based) equals P
ExactAt(L, P, i) ==
  /\ i + Len(P) - 1 <= Len(L)
  /\ \A j \in 1..Len(P) : L[i + j - 1] = P[j]

\* the starts of the runs equal to P, top to bottom, a run counting only when
\* it shares no line with a run counted before it
CountedRuns(L, P) ==
  LET f[i \in 0..Len(L)] ==
        IF i = 0 THEN {}
        ELSE IF ExactAt(L, P, i) /\ \A j \in f[i - 1] : j + Len(P) <= i
             THEN f[i - 1] \cup {i}
             ELSE f[i - 1]
  IN f[Len(L)]

\* C5: insert_block(lineNumber, lines) succeeds exactly when
\* 0 <= lineNumber <= len; the result is then the first lineNumber lines, the
\* block, and the remaining lines; otherwise it fails out of bounds and the
\* lines stay as they were.
Thm_C5 ==
  eOp.type = "insert_block" =>
    LET n == eOp.lineNumber
        k == Len(eOp.lines)
        len == Len(ePrev)
    IN /\ eOut.ok <=> (0 <= n /\ n <= len)
       /\ eOut.ok =>
            /\ Len(eLines) = len + k
            /\ \A i \in 1..n : eLines[i] = ePrev[i]
            /\ \A j \in 1..k : eLines[n + j] = eOp.lines[j]
            /\ \A i \in (n + 1)..len : eLines[i + k] = ePrev[i]
       /\ ~eOut.ok =>
            /\ eOut.error[1].type = "insert_block"
            /\ eOut.error[1].kind = "out_of_bounds"
            /\ eLines = ePrev

Wit_C5 ==
  /\ eOp.type = "insert_block"
  /\ eOut.ok
  /\ Len(ePrev) = 2
  /\ eOp.lineNumber = Len(ePrev)
  /\ Len(eOp.lines) = 2

\* C6: delete_range(startLine, endLine) succeeds exactly when
\* 1 <= startLine <= endLine <= len and then removes the lines
\* startLine..endLine and keeps the others in order; otherwise it fails with
\* an invalid-range error and the lines stay as they were.
Thm_C6 ==
  eOp.type = "delete_range" =>
    LET s == eOp.startLine
        e == eOp.endLine
        len == Len(ePrev)
    IN /\ eOut.ok <=> (1 <= s /\ s <= e /\ e <= len)
       /\ eOut.ok =>
            /\ Len(eLines) = len - (e - s + 1)
            /\ \A i \in 1..(s - 1) : eLines[i] = ePrev[i]
            /\ \A i \in (e + 1)..len : eLines[i - (e - s + 1)] = ePrev[i]
       /\ ~eOut.ok =>
            /\ eOut.error[1].type = "delete_range"
            /\ eOut.error[1].kind = "invalid_range"
            /\ eLines = ePrev

Wit_C6 ==
  /\ eOp.type = "delete_range"
  /\ eOut.ok
  /\ Len(ePrev) = 3
  /\ eOp.startLine = 2
  /\ eOp.endLine = 3

\* C7: replace_range(startLine, endLine, lines) validates as delete_range and
\* on success gives the lines before startLine, the block, and the lines after
\* endLine, of length len - (endLine - startLine + 1) + |lines|.
Thm_C7 ==
  eOp.type = "replace_range" =>
    LET s == eOp.startLine
        e == eOp.endLine
        k == Len(eOp.lines)
        len == Len(ePrev)
    IN /\ eOut.ok <=> (1 <= s /\ s <= e /\ e <= len)
       /\ eOut.ok <=> DeleteRange(ePrev, OpDeleteRange(s, e)).ok
       /\ eOut.ok =>
            /\ Len(eLines) = len - (e - s + 1) + k
            /\ \A i \in 1..(s - 1) : eLines[i] = ePrev[i]
            /\ \A j \in 1..k : eLines[s - 1 + j] = eOp.lines[j]
            /\ \A i \in (e + 1)..len : eLines[i - (e - s + 1) + k] = ePrev[i]
       /\ ~eOut.ok =>
            /\ eOut.error[1].type = "replace_range"
            /\ eOut.error[1].kind = "invalid_range"
            /\ eLines = ePrev

Wit_C7 ==
  /\ eOp.type = "replace_range"
  /\ eOut.ok
  /\ Len(ePrev) = 3
  /\ eOp.startLine = 1
  /\ eOp.endLine = 2
  /\ Len(eOp.lines) = 1

\* C8: insert_after / insert_before take as target the occurrence-th line,
\* top to bottom, among the lines that contain searchContent; they succeed
\* exactly when that line exists and then place the one element content right
\* after / right before it, every other line keeping its content and order.
Thm_C8 ==
  eOp.type \in {"insert_after", "insert_before"} =>
    LET M == ContainingLines(ePrev, eOp.searchContent)
        T == Nth(M, Occurrence(eOp))
        len == Len(ePrev)
    IN /\ eOut.ok <=> T # {}
       /\ eOut.ok =>
            \A t \in T :
              LET at == IF eOp.type = "insert_after" THEN t + 1 ELSE t
              IN /\ Len(eLines) = len + 1
                 /\ eLines[at] = eOp.content
                 /\ \A i \in 1..(at - 1) : eLines[i] = ePrev[i]
                 /\ \A i \in at..len : eLines[i + 1] = ePrev[i]

Wit_C8 ==
  /\ eOp.type = "insert_after"
  /\ eOut.ok
  /\ Occurrence(eOp) = 2
  /\ Cardinality(ContainingLines(ePrev, eOp.searchContent)) = 2
  /\ Len(ePrev) = 3
  /\ ~Includes(ePrev[1], eOp.searchContent)
  /\ ePrev[2] # eOp.searchContent

\* C9: a failed insert_after / insert_before reports the occurrence asked for
\* and, as total, the number of lines of the current sequence that contain
\* searchContent.
Thm_C9 ==
  (eOp.type \in {"insert_after", "insert_before"} /\ ~eOut.ok) =>
    /\ eOut.error[1].type = eOp.type
    /\ eOut.error[1].kind = "not_found"
    /\ eOut.error[1].args =
         <<Occurrence(eOp), Cardinality(ContainingLines(ePrev, eOp.searchContent))>>
    /\ eOut.error[1].text = eOp.searchContent
    /\ eLines = ePrev

Wit_C9 ==
  /\ eOp.type = "insert_before"
  /\ ~eOut.ok
  /\ Occurrence(eOp) = 2
  /\ Cardinality(ContainingLines(ePrev, eOp.searchContent)) = 1
  /\ Includes(ePrev[1], eOp.searchContent)

\* C10: replace_content splits oldContent into a pattern of m lines, takes the
\* occurrence-th run of m lines equal to the pattern that the top-to-bottom
\* scan counts, and replaces that run by the lines of newContent: the lines
\* before the run, split(newContent), the lines after the run.
Thm_C10 ==
  eOp.type = "replace_content" =>
    LET P == Split(eOp.oldContent)
        N == Split(eOp.newContent)
        m == Len(P)
        T == Nth(CountedRuns(ePrev, P), Occurrence(eOp))
        len == Len(ePrev)
    IN /\ eOut.ok <=> T # {}
       /\ eOut.ok =>
            \A t \in T :
              /\ ExactAt(ePrev, P, t)
              /\ Len(eLines) = len - m + Len(N)
              /\ \A i \in 1..(t - 1) : eLines[i] = ePrev[i]
              /\ \A j \in 1..Len(N) : eLines[t - 1 + j] = N[j]
              /\ \A i \in (t + m)..len : eLines[i - m + Len(N)] = ePrev[i]
       /\ ~eOut.ok => eLines = ePrev

Wit_C10 ==
  /\ eOp.type = "replace_content"
  /\ eOut.ok
  /\ Len(Split(eOp.oldContent)) = 2
  /\ Len(Split(eOp.newContent)) = 1
  /\ Len(ePrev) = 3
  /\ ePrev[1] # Split(eOp.oldContent)[1]

\* the content a replace_content / delete_content operation searches for
PatternOf(op) == IF op.type = "replace_content" THEN op.oldContent ELSE op.content

\* C11: the matches that replace_content and delete_content count never
\* overlap: every occurrence up to the total selects the start of a run equal
\* to the pattern, a later occurrence starts at or after the end of an earlier
\* one, no occurrence beyond the total is selectable, and the pattern [a,a]
\* has exactly one match on [a,a,a].
Thm_C11 ==
  eOp.type \in {"replace_content", "delete_content"} =>
    LET P == Split(PatternOf(eOp))
        m == Len(P)
        RS(o) == ReplaceScan(ePrev, P, o, 0, 0, -1)
        DS(o) == DeleteScan(ePrev, P, o, 0, 0, -1)
        total == RS(1).totalMatches
    IN /\ DS(1).totalMatches = total
       /\ \A o \in 1..total :
            /\ RS(o).targetIndex >= 0
            /\ DS(o).targetIndex >= 0
            /\ ExactAt(ePrev, P, RS(o).targetIndex + 1)
            /\ ExactAt(ePrev, P, DS(o).targetIndex + 1)
       /\ \A o1 \in 1..total : \A o2 \in 1..total :
            o1 < o2 =>
              /\ RS(o1).targetIndex + m <= RS(o2).targetIndex
              /\ DS(o1).targetIndex + m <= DS(o2).targetIndex
       /\ RS(total + 1).targetIndex = -1
       /\ DS(total + 1).targetIndex = -1
       /\ (ePrev = <<sA, sA, sA>> /\ P = <<sA, sA>>) =>
            /\ total = 1
            /\ (Occurrence(eOp) = 2 => ~eOut.ok)

Wit_C11 ==
  /\ eOp.type = "replace_content"
  /\ ePrev = <<sA, sA, sA>>
  /\ eOp.oldContent = sAnA
  /\ Occurrence(eOp) = 2
  /\ ~eOut.ok

\* C12: delete_content matches as replace_content does: for the same lines,
\* content and occurrence both find a match or neither does, they select the
\* same start and count the same total; delete_content then gives the lines
\* with exactly that run removed.
Thm_C12 ==
  eOp.type = "delete_content" =>
    LET c == eOp.content
        occ == Occurrence(eOp)
        P == Split(c)
        d == FindAndDeleteContent(ePrev, c, occ)
        t == DeleteScan(ePrev, P, occ, 0, 0, -1).targetIndex
    IN /\ \A nc \in NewStrs :
            LET r == FindAndReplaceContent(ePrev, c, nc, occ)
            IN /\ r.found = d.found
               /\ r.totalMatches = d.totalMatches
               /\ ReplaceContent(ePrev, OpReplaceContent(c, nc, eOp.occurrence)).ok
                    = eOut.ok
       /\ ReplaceScan(ePrev, P, occ, 0, 0, -1).targetIndex = t
       /\ eOut.ok = d.found
       /\ d.found = (t # -1)
       /\ eOut.ok =>
            /\ Len(eLines) = Len(ePrev) - Len(P)
            /\ \A i \in 1..t : eLines[i] = ePrev[i]
            /\ \A i \in (t + Len(P) + 1)..Len(ePrev) : eLines[i - Len(P)] = ePrev[i]
       /\ ~eOut.ok => eLines = ePrev

Wit_C12 ==
  /\ eOp.type = "delete_content"
  /\ eOut.ok
  /\ Len(Split(eOp.content)) = 2
  /\ Len(ePrev) = 3
  /\ ePrev[1] # Split(eOp.content)[1]

\* C13: a failed replace_content / delete_content reports the occurrence
\* asked for and, as total, the number of runs equal to the pattern that the
\* whole top-to-bottom scan counts without overlap; the total is 0 when no run
\* equals the pattern.
Thm_C13 ==
  (eOp.type \in {"replace_content", "delete_content"} /\ ~eOut.ok) =>
    LET P == Split(PatternOf(eOp))
    IN /\ eOut.error[1].type = eOp.type
       /\ eOut.error[1].kind = "not_found"
       /\ eOut.error[1].args = <<Occurrence(eOp), Cardinality(CountedRuns(ePrev, P))>>
       /\ (\A i \in 1..Len(ePrev) : ~ExactAt(ePrev, P, i)) => eOut.error[1].args[2] = 0
       /\ eOut.error[1].text = PatternOf(eOp)

Wit_C13 ==
  /\ eOp.type = "delete_content"
  /\ ~eOut.ok
  /\ Occurrence(eOp) = 2
  /\ eOut.error[1].args[2] = 1
  /\ ExactAt(ePrev, Split(eOp.content), Len(ePrev))

\* C14: insert_after / insert_before match a line that contains
\* searchContent, replace_content / delete_content only a line equal to the
\* pattern line; so for a fragment that is a proper part of some line and equal
\* to no line the first occurrence is found by insert_after / insert_before
\* while replace_content and delete_content fail with 0 matches.
Thm_C14 ==
  eOp.type \in {"insert_after", "insert_before"} =>
    LET s == eOp.searchContent
        len == Len(ePrev)
        fragment == /\ \E i \in 1..len : Includes(ePrev[i], s) /\ ePrev[i] # s
                    /\ \A i \in 1..len : ePrev[i] # s
    IN /\ FindContentLine(ePrev, s, 1).totalMatches =
            Cardinality({i \in 1..len : Includes(ePrev[i], s)})
       /\ ReplaceScan(ePrev, Split(s), 1, 0, 0, -1).totalMatches =
            Cardinality({i \in 1..len : ePrev[i] = s})
       /\ DeleteScan(ePrev, Split(s), 1, 0, 0, -1).totalMatches =
            Cardinality({i \in 1..len : ePrev[i] = s})
       /\ (fragment /\ Occurrence(eOp) = 1) =>
            /\ eOut.ok
            /\ \A nc \in NewStrs :
                 LET rc == ReplaceContent(ePrev, OpReplaceContent(s, nc, eOp.occurrence))
                 IN ~rc.ok /\ rc.error[1].args[2] = 0
            /\ LET dc == DeleteContent(ePrev, OpDeleteContent(s, eOp.occurrence))
               IN ~dc.ok /\ dc.error[1].args[2] = 0

Wit_C14 ==
  /\ eOp.type = "insert_after"
  /\ eOut.ok
  /\ eOp.searchContent = sA
  /\ Occurrence(eOp) = 1
  /\ ePrev = <<sB, sAB>>

\* C16 as stated: insert_block(p, lines) followed by
\* delete_range(p+1, p+|lines|) succeeds and restores L, for every block.
Cex_C16 ==
  (eOp.type = "insert_block" /\ eOut.ok) =>
    LET r == DeleteRange(eLines,
                         OpDeleteRange(eOp.lineNumber + 1, eOp.lineNumber + Len(eOp.lines)))
    IN r.ok /\ r.lines = ePrev

\* C16 (amended): for a block of at least one line, insert_block(p, lines)
\* followed by delete_range(p+1, p+|lines|) restores L exactly; for the empty
\* block insert_block leaves L as it is and delete_range(p+1, p) fails with an
\* invalid-range error.
Thm_C16 ==
  (eOp.type = "insert_block" /\ eOut.ok) =>
    LET r == DeleteRange(eLines,
                         OpDeleteRange(eOp.lineNumber + 1, eOp.lineNumber + Len(eOp.lines)))
    IN IF Len(eOp.lines) >= 1
       THEN r.ok /\ r.lines = ePrev
       ELSE /\ eLines = ePrev
            /\ ~r.ok
            /\ r.error[1].kind = "invalid_range"

Wit_C16 ==
  /\ eOp.type = "insert_block"
  /\ eOut.ok
  /\ Len(eOp.lines) = 2
  /\ eOp.lineNumber = 1
  /\ Len(ePrev) = 2
  /\ eLines # ePrev

\* C20: for insert_after, insert_before, replace_content and delete_content
\* an omitted occurrence behaves as occurrence 1: the same lines or the same
\* failure, the first match being the target.
Thm_C20 ==
  eOp.type \in {"insert_after", "insert_before", "replace_content", "delete_content"} =>
    /\ eOp.occurrence = <<>> =>
         /\ eOut = ApplyOp(ePrev, [eOp EXCEPT !.occurrence = <<1>>])
         /\ eOut.ok <=>
              IF eOp.type \in {"insert_after", "insert_before"}
              THEN ContainingLines(ePrev, eOp.searchContent) # {}
              ELSE CountedRuns(ePrev, Split(PatternOf(eOp))) # {}
         /\ ~eOut.ok => eOut.error[1].args[1] = 1
    /\ eOp.occurrence = <<1>> =>
         eOut = ApplyOp(ePrev, [eOp EXCEPT !.occurrence = <<>>])

Wit_C20 ==
  /\ eOp.type = "replace_content"
  /\ eOp.occurrence = <<>>
  /\ eOut.ok
  /\ Cardinality(CountedRuns(ePrev, Split(eOp.oldContent))) = 2
  /\ eLines # ePrev

\* -------------------------------------------- claims on the calls (cont.)
\* the call of p is an applyDiff call that has returned a read error
ReadFailed(p) ==
  /\ pc[p] = "done"
  /\ result[p].error # <<>>
  /\ result[p].error[1].type = "readFile"

\* C15: applyDiff with no operations succeeds and leaves the file content as
\* it was, character for character: the join of the split of any content is
\* that content (empty, ending in a line break, with line breaks in a row).
Thm_C15 ==
  /\ pc[1] = "ad_loop" => Join(Split(content[1])) = content[1]
  /\ (pc[1] = "ad_loop" /\ diff[1] = <<>>) => lines[1] = Split(content[1])
  /\ (pc[1] = "done" /\ reads[1] = 1 /\ diff[1] = <<>> /\ writes[1] = 1
        /\ result[1].error = <<>>) =>
       /\ fileExists
       /\ file = before[1].content
       /\ evals[1] = 0

Wit_C15 ==
  /\ DiffSucceeded(1)
  /\ diff[1] = <<>>
  /\ before[1].content = <<"a", NL, NL>>
  /\ file = <<"a", NL, NL>>

\* C17: applyDiff on a file that cannot be read returns the read error,
\* having called readFile once, evaluated no operation and written nothing;
\* a file that did not exist still does not exist.
Thm_C17 ==
  /\ ReadFailed(1) =>
       /\ reads[1] = 1
       /\ evals[1] = 0
       /\ writes[1] = 0
       /\ lines[1] = <<>>
       /\ fileExists = before[1].exists
       /\ file = before[1].content
       /\ result[1].error[1].isError
  /\ (pc[1] \in {"ad_loop", "done"} /\ reads[1] >= 1 /\ ~before[1].exists) =>
       /\ ReadFailed(1)
       /\ result[1].error[1].kind = "ENOENT"
       /\ ~fileExists

Wit_C17 ==
  /\ ReadFailed(1)
  /\ ~before[1].exists
  /\ Len(diff[1]) = 2
  /\ diff[1][1] = OpInsertBlock(0, <<sA, sB>>)

\* C18: after a successful rewriteFile the file exists and its content is the
\* content given, whatever was there before (no file, no parent directory,
\* any content left by earlier calls), also for the empty content.
Thm_C18 ==
  (pc[1] = "done" /\ reads[1] = 0 /\ result[1].error = <<>>) =>
    /\ fileExists
    /\ dirExists
    /\ file = content[1]
    /\ writes[1] = 1

Wit_C18 ==
  /\ pc[1] = "done"
  /\ reads[1] = 0
  /\ result[1].error = <<>>
  /\ ~before[1].exists
  /\ ~before[1].dir
  /\ content[1] = <<>>

\* C19: also when applyDiff calls on one path interleave, the file changes
\* only in the single write of a call all of whose operations succeeded, and
\* then to the join of all operations of that call applied to the content
\* that call read; a call writes at most once and a step of one call leaves
\* the lines of the other call alone.
Thm_C19 ==
  [][ /\ (file' # file \/ fileExists' # fileExists) =>
           \E p \in Procs :
              /\ pc[p] = "ad_loop"
              /\ pc'[p] = "done"
              /\ writes[p] = 0
              /\ result'[p] = Success
              /\ \A j \in 1..Len(diff[p]) : ~FailsAt(Split(content[p]), diff[p], j)
              /\ file' = Join(AfterOps(Split(content[p]), diff[p], Len(diff[p])))
      /\ \A p \in Procs : writes'[p] <= 1
      /\ \A p \in Procs : \A q \in Procs :
           (lines'[p] # lines[p] /\ q # p) => lines'[q] = lines[q]
    ]_vars

Wit_C19 ==
  /\ DiffSucceeded(1)
  /\ file # content[1]
  /\ pc[2] = "ad_loop"
  /\ Len(diff[2]) = 2
  /\ idx[2] = 2
  /\ lines[2] # Split(content[2])
  /\ content[2] = content[1]
  /\ file # Join(lines[2])

\* -------------------------------------- claims on the single-line operations
\* C21: applyDiff supports the single-line operations of file-tool.md:
\* insert(lineNumber, content) puts one line after lineNumber (0 = beginning),
\* delete(lineNumber) removes the 1-indexed line, replace(lineNumber, content)
\* substitutes the 1-indexed line, each fails when lineNumber is out of
\* bounds, and the diff [delete 2, insert after 2] inserts after the line
\* that was line 3.
Cex_C21 ==
  LET n == eOp.lineNumber
      len == Len(ePrev)
  IN /\ eOp.type = "insert" =>
          IF 0 <= n /\ n <= len
          THEN eOut.ok /\ eLines = Slice(ePrev, 0, n) \o <<eOp.content>> \o Slice(ePrev, n, len)
          ELSE ~eOut.ok /\ eLines = ePrev
     /\ eOp.type = "delete" =>
          IF 1 <= n /\ n <= len
          THEN eOut.ok /\ eLines = Slice(ePrev, 0, n - 1) \o Slice(ePrev, n, len)
          ELSE ~eOut.ok /\ eLines = ePrev
     /\ eOp.type = "replace" =>
          IF 1 <= n /\ n <= len
          THEN eOut.ok
               /\ eLines = Slice(ePrev, 0, n - 1) \o <<eOp.content>> \o Slice(ePrev, n, len)
          ELSE ~eOut.ok /\ eLines = ePrev
     /\ eOp.type \in {"insert", "delete"} =>
          AfterOps(<<sA, sB, sAB>>, <<OpDelete(2), OpInsert(2, sE)>>, 2) = <<sA, sAB, sE>>

\* ------------------------------------ claims on the text generation service
\* the SDK function has been called by the call in progress
SdkCalled == gPc # "idle"

\* C22: for each of temperature, maxTokens, topP, frequencyPenalty,
\* presencePenalty, headers and stopSequences, generateText and streamText
\* hand to the SDK the value of the request config when the request config
\* has the field, otherwise the value of the constructor default, and leave
\* the parameter out when neither gives a value (a field holding undefined
\* is handed on as a parameter left out); the model argument is this.model,
\* never the model field of a config.
Thm_C22 ==
  SdkCalled =>
    /\ \A k \in ConfigParams :
         sdkArgs[k] = IF gConfig[k].present
                      THEN (IF gConfig[k].defined THEN gConfig[k] ELSE Absent)
                      ELSE IF defaultConfig[k].defined THEN defaultConfig[k] ELSE Absent
    /\ \A k \in ConfigParams :
         ~gConfig[k].defined /\ ~defaultConfig[k].defined => ~sdkArgs[k].present
    /\ sdkArgs["model"] = ThisModel
    /\ sdkArgs["prompt"] = Prompt
    /\ DOMAIN sdkArgs = SdkKeys

\* streamText with every default set and a request that sets temperature
\* only: the request's temperature, the defaults of the rest, this.model
Wit_C22 ==
  /\ gPc = "stream_await"
  /\ sdkFn = "streamText"
  /\ defaultConfig = ConfigOf(ConfigKeys, Value(1))
  /\ gConfig = ConfigOf({"temperature"}, Value(2))
  /\ sdkArgs["temperature"] = Value(2)
  /\ \A k \in ConfigParams \ {"temperature"} : sdkArgs[k] = Value(1)
  /\ sdkArgs["model"] = ThisModel

\* the four reasons the service hands on unchanged
KeptFinishReasons == {"stop", "length", "content-filter", "error"}

\* a settled promise p carries the reason that the SDK's reason maps to
MappedReason(p) ==
  p.settled = "fulfilled" =>
    /\ p.finishReason \in DomainFinishReasons
    /\ sdkReason \in KeptFinishReasons => p.finishReason = sdkReason
    /\ sdkReason \notin KeptFinishReasons => p.finishReason = "other"

\* C23: the finish reason in the result of generateText and in the metadata
\* of streamText is one of stop, length, content-filter, error, other: the
\* SDK's stop, length, content-filter and error are kept and every other
\* reason of the SDK (tool-calls, unknown, other) becomes other.
Thm_C23 ==
  /\ sdkFn = "generateText" => MappedReason(gResult)
  /\ sdkFn = "streamText" => MappedReason(gMetadata)

\* the metadata of a stream whose SDK reason was tool-calls says other
Wit_C23 ==
  /\ sdkFn = "streamText"
  /\ gPc = "done"
  /\ sdkReason = "tool-calls"
  /\ gMetadata = GenFulfilled("other")

\* --------------------------------------------- claims on overlapping calls
\* the file that the diff of p alone makes of the content c
Alone(c, p) == Join(AfterOps(Split(c), diff[p], Len(diff[p])))

\* C24: two applyDiff calls on one path are not serialized: when both have
\* read the same content before either writes, the later write is not held
\* up or refused, and it leaves the file as the later writer's diff applied
\* to the content read, whatever the earlier writer, who returned success,
\* had written.
Thm_C24 ==
  [][ \A p \in Procs : \A q \in Procs \ {p} :
        ( /\ pc[p] = "ad_loop"
          /\ idx[p] > Len(diff[p])
          /\ pc'[p] = "done"
          /\ DiffSucceeded(q)
          /\ content[p] = content[q] )
        => /\ result'[p] \in {Success, ApplyDiffCatch(FsError("writeFile", "EACCES"))}
           /\ result'[p] = Success => file' = Alone(content[q], p)
    ]_vars

\* both calls read the same content and returned success; the file is what
\* the diff of call 2 alone makes of it, and the change that call 1 wrote
\* is in neither order of the two diffs part of it
Wit_C24 ==
  /\ DiffSucceeded(1)
  /\ DiffSucceeded(2)
  /\ content[1] = content[2]
  /\ Alone(content[1], 1) # content[1]
  /\ file = Alone(content[1], 2)
  /\ file # Alone(content[1], 1)
  /\ file # Alone(Alone(content[1], 1), 2)
  /\ file # Alone(Alone(content[1], 2), 1)

\* ------------------------------------------ claims on the engine (cont.)
ContentOpTypes == {"insert_after", "insert_before", "replace_content", "delete_content"}

\* the occurrence asked for: 1 when the operation names none
AskedOccurrence(op) == IF op.occurrence = <<>> THEN 1 ELSE op.occurrence[1]

\* the matches of a content-anchored operation on L: the lines containing the
\* search text, or the counted runs equal to the pattern
MatchTotal(L, op) ==
  IF op.type \in {"insert_after", "insert_before"}
  THEN Cardinality(ContainingLines(L, op.searchContent))
  ELSE Cardinality(CountedRuns(L, Split(PatternOf(op))))

\* C25: insert_after, insert_before, replace_content and delete_content
\* succeed exactly when 1 <= occurrence <= total matches on the current lines;
\* an occurrence of 0 or below fails also when there are matches, and the
\* error then carries the occurrence asked for and the true total.
Thm_C25 ==
  eOp.type \in ContentOpTypes =>
    LET occ == AskedOccurrence(eOp)
        total == MatchTotal(ePrev, eOp)
    IN /\ eOut.ok <=> (1 <= occ /\ occ <= total)
       /\ occ <= 0 =>
            /\ ~eOut.ok
            /\ eOut.error[1].kind = "not_found"
            /\ eOut.error[1].args = <<occ, total>>
            /\ eLines = ePrev

\* insert_after with occurrence 0 on lines of which two hold the search text
\* fails and reports 2
Wit_C25 ==
  /\ eOp.type = "insert_after"
  /\ eOp.occurrence = <<0>>
  /\ MatchTotal(ePrev, eOp) = 2
  /\ ~eOut.ok
  /\ eOut.error[1].args = <<0, 2>>

\* ---------------------------------------------- claims on the calls (cont.)
\* the types the switch of applyDiff has a case for
HandledTypes ==
  {"insert_block", "delete_range", "replace_range", "insert_after", "insert_before",
   "replace_content", "delete_content"}

IsHandled(op) == op.type \in HandledTypes

\* the operations of d that the switch has a case for, in order
Handled(d) == SelectSeq(d, IsHandled)

ScanResult ==
  IF sKind = "replace_content"
  THEN ReplaceScan(sLines, sPattern, sOccurrence, 0, 0, -1)
  ELSE DeleteScan(sLines, sPattern, sOccurrence, 0, 0, -1)

Thm_C28 ==
  (eOp.type = "replace_content" /\ eOut.ok) =>
    LET len == Len(ePrev)
        m == Len(Split(eOp.oldContent))
        n == Len(Split(eOp.newContent))
        del == ApplyOp(ePrev, OpDeleteContent(eOp.oldContent, eOp.occurrence))
        target == Nth(CountedRuns(ePrev, Split(eOp.oldContent)), AskedOccurrence(eOp))
    IN /\ n >= 1
       /\ Len(eLines) = len - m + n
       /\ Len(eLines) >= len - m + 1
       /\ del.ok
       /\ Len(del.lines) = len - m
       /\ eOp.newContent = sE =>
            /\ Len(eLines) = len - m + 1
            /\ Len(eLines) = Len(del.lines) + 1
            /\ \A i \in target :
                 eLines = SubSeq(ePrev, 1, i - 1) \o <<sE>> \o SubSeq(ePrev, i + m, len)
            /\ target # {}

\* the two-line run a / b of three lines replaced by "": two lines are left
Wit_C28 ==
  /\ eOp.type = "replace_content"
  /\ eOp.oldContent = sAnB
  /\ eOp.newContent = sE
  /\ eOut.ok
  /\ Len(ePrev) = 3
  /\ Len(eLines) = 2
  /\ sE \in {eLines[i] : i \in 1..Len(eLines)}
  /\ sE \notin {ePrev[i] : i \in 1..Len(ePrev)}

\* -------------------------------------------- claims on the calls (cont. 2)
\* the line breaks inside the elements of L
Breaks(L) ==
  Cardinality({ij \in UNION {{<<i, j>> : j \in 1..Len(L[i])} : i \in 1..Len(L)} :
                 L[ij[1]][ij[2]] = NL})

\* M is L with the one element c put in at some position
OneMore(L, M, c) ==
  \E i \in 0..Len(L) : M = SubSeq(L, 1, i) \o <<c>> \o SubSeq(L, i + 1, Len(L))

\* C29: insert_after and insert_before add one element to the lines in
\* memory, the content as it is, also when it holds line breaks; the
\* operations after it in the diff work on lines in which it is one element,
\* and the file written holds it as several lines: split again, the file of
\* one element or more has one line more per line break in an element.
Thm_C29 ==
  \A p \in {1} :
    /\ pc[p] = "ad_loop" =>
         /\ lines[p] = AfterOps(Split(content[p]), diff[p], idx[p] - 1)
         /\ \A k \in 1..(idx[p] - 1) :
              diff[p][k].type \in {"insert_after", "insert_before"} =>
                OneMore(AfterOps(Split(content[p]), diff[p], k - 1),
                        AfterOps(Split(content[p]), diff[p], k),
                        diff[p][k].content)
    /\ DiffSucceeded(p) =>
         /\ file = Join(lines[p])
         /\ lines[p] # <<>> => Len(Split(file)) = Len(lines[p]) + Breaks(lines[p])

\* insert_after of b\nb and then delete_range(2, 2) on a file of the one line
\* a: in the loop the content was the one element that delete_range took
\* away again; the same insert alone leaves a file of three lines
Wit_C29 ==
  /\ DiffSucceeded(1)
  /\ content[1] = sA
  /\ diff[1] = <<OpInsertAfter(sA, sBnB, <<>>), OpDeleteRange(2, 2)>>
  /\ AfterOps(<<sA>>, diff[1], 1) = <<sA, sBnB>>
  /\ lines[1] = <<sA>>
  /\ file = sA
  /\ Len(Split(Join(AfterOps(<<sA>>, diff[1], 1)))) = 3

\* what one of the seven handled operations does on no lines at all:
\* insert_block at 0 goes through, a range operation fails its validation, a
\* content-anchored operation fails having found 0 matches
OnNoLines(op) ==
  LET r == ApplyOp(<<>>, op)
  IN /\ r.ok <=> (op.type = "insert_block" /\ op.lineNumber = 0)
     /\ r.ok => r.lines = op.lines
     /\ (op.type = "insert_block" /\ ~r.ok) => r.error[1].kind = "out_of_bounds"
     /\ op.type \in {"delete_range", "replace_range"} =>
          ~r.ok /\ r.error[1].kind \in {"out_of_bounds", "invalid_range"}
     /\ op.type \in ContentOpTypes =>
          /\ ~r.ok
          /\ r.error[1].kind = "not_found"
          /\ r.error[1].args = <<AskedOccurrence(op), 0>>

\* C30: the lines of an applyDiff call hold one element or more when the
\* loop starts (an empty file is read as one empty line); they can be empty
\* later in the diff, after delete_range(1, len); on no lines, of the seven
\* handled operations only insert_block with lineNumber 0 goes through (the
\* range operations fail their validation, the content-anchored ones find 0
\* matches); a call whose diff ends on no lines writes an empty file.
Thm_C30 ==
  \A p \in {1} :
    /\ (pc[p] = "ad_loop" /\ idx[p] = 1) =>
         /\ Len(lines[p]) >= 1
         /\ content[p] = sE => lines[p] = <<sE>>
    /\ (pc[p] = "ad_loop" /\ lines[p] = <<>>) =>
         /\ idx[p] > 1
         /\ \A op \in EngineOps \cup DiffOps : IsHandled(op) => OnNoLines(op)
         /\ idx[p] <= Len(diff[p]) =>
              LET op == diff[p][idx[p]]
              IN IsHandled(op) => OnNoLines(op) /\ ApplyOp(lines[p], op) = ApplyOp(<<>>, op)
    /\ (DiffSucceeded(p) /\ lines[p] = <<>>) =>
         /\ fileExists
         /\ file = sE
         /\ Split(file) = <<sE>>

\* delete_range(1, 1) on a file of one line: the loop ended on no lines, the
\* call returned success and the file is empty
Wit_C30 ==
  /\ DiffSucceeded(1)
  /\ diff[1] = <<OpDeleteRange(1, 1)>>
  /\ content[1] = sA
  /\ Len(Split(content[1])) = 1
  /\ lines[1] = <<>>
  /\ file = sE
====
